---- MODULE Spec2Model ----
(***************************************************************************)
(* Model of src/main_desktop.py: the departure board's scroll animation    *)
(* (DepartureBoard.render_frame, _refresh_data, _draw_scrolling_text), its *)
(* blit primitives (_draw_bitmap, _draw_bitmap_clipped), the text bitmap   *)
(* cache (BitmapTextCache.get_bitmap) and the status mapping               *)
(* (_get_status_text).                                                     *)
(*                                                                         *)
(* Python strings are sequences of one-character strings, so that          *)
(* concatenation (text + font_key, f"Exp {expected}") is \o.               *)
(***************************************************************************)
EXTENDS Integers, Sequences, FiniteSets, TLC

VARIABLES
    \* ---- DepartureBoard (SpecBoard) ----
    pc,                    \* "constructed" (after __init__) | "running" (after run)
    departure_data,        \* Optional[List[departure]]
    station_name,
    pixels_left, pixels_up, has_elevated, pause_count, station_render_count,
    elapsed,               \* current_time - last_refresh, saturated at RefreshTime
    screen1Platform,       \* config["journey"]["screen1Platform"]
    operatingHours,        \* config["api"]["operatingHours"] is set ("a-b")
    \* history of the last render_frame / _refresh_data call
    refresh_obs,           \* outcome of the last _refresh_data call and the
                           \* scroll state at its entry and at its return
    frames_drawn,          \* frames that drew the calling-at line of the
                           \* installed list since it was installed
    used,                  \* scroll state the last frame's draw started from,
                           \* the position it drew at, and the frame before's
    entered, cycle_done,   \* horizontal phase entered since install; the
                           \* REVEAL state with pause 0 / up 0 seen after that
    flush_frames,          \* consecutive frames drawn flush in this cycle
    \* ---- blit primitives (SpecBlit) ----
    buffer,                \* pixels of the frame image that are yellow
    blit_call,             \* arguments of the last blit and the points it set
    blits,                 \* blits onto the current frame image
    \* ---- BitmapTextCache (SpecCache) ----
    cache,                 \* self._cache: key -> entry
    bitmap_ret,            \* what the last get_bitmap call was given and returned
    \* ---- _get_status_text (SpecStatus) ----
    departure, status_text

boardVars == <<pc, departure_data, station_name, pixels_left, pixels_up,
               has_elevated, pause_count, station_render_count, elapsed,
               screen1Platform, operatingHours, refresh_obs, frames_drawn,
               used, entered, cycle_done, flush_frames>>
blitVars == <<buffer, blit_call, blits>>
cacheVars == <<cache, bitmap_ret>>
statusVars == <<departure, status_text>>
vars == <<boardVars, blitVars, cacheVars, statusVars>>

(***************************************************************************)
(* Bounds of the model.                                                    *)
(***************************************************************************)
\* frames drawn per installed departure list (two full scroll cycles)
MaxFrames == 212
\* config["refreshTime"], in clock ticks
RefreshTime == 2
\* glyph metrics of the fonts (font.getbbox is PIL's): width per character
\* and line height at size 10
GlyphWidth == 1
GlyphHeight == 2
\* blits onto one frame image
MaxBlits == 2
\* get_bitmap calls
MaxCalls == 3

(***************************************************************************)
(* Program constants.                                                      *)
(***************************************************************************)
CanvasWidth == 256
CanvasHeight == 64
LineHeight == 10
ScrollAreaHeight == 22
RevealPause == 100
ScrollPause == 8

(***************************************************************************)
(* Python values.                                                          *)
(***************************************************************************)
None == [some |-> FALSE, v |-> <<>>]
Some(x) == [some |-> TRUE, v |-> x]
\* `x or []`
OrEmpty(x) == IF x.some THEN x.v ELSE <<>>

S_OnTime == <<"O", "n", " ", "t", "i", "m", "e">>
S_Cancelled == <<"C", "a", "n", "c", "e", "l", "l", "e", "d">>
S_Delayed == <<"D", "e", "l", "a", "y", "e", "d">>
S_Exp == <<"E", "x", "p", " ">>
T_1032 == <<"1", "0", ":", "3", "2">>
T_1045 == <<"1", "0", ":", "4", "5">>

(***************************************************************************)
(* Fonts and text measurement.                                             *)
(***************************************************************************)
F_DotMatrix == <<"D", "o", "t", " ", "M", "a", "t", "r", "i", "x">>
F_Regular == <<"R", "e", "g", "u", "l", "a", "r">>
F_Bold == <<"B", "o", "l", "d">>
F_BoldTall == <<"B", "o", "l", "d", " ", "T", "a", "l", "l">>

\* make_font(name, size): the font file's family and style names, and the size
make_font(family, style, size) == [family |-> family, style |-> style, size |-> size]

\* _load_fonts
font == make_font(F_DotMatrix, F_Regular, 10)
font_bold == make_font(F_DotMatrix, F_Bold, 10)
font_bold_tall == make_font(F_DotMatrix, F_BoldTall, 10)
font_bold_large == make_font(F_DotMatrix, F_Bold, 20)
Fonts == {font, font_bold, font_bold_tall, font_bold_large}

\* font.getname(): (family, style); the size is not part of it
getname(f) == <<f.family, f.style>>

\* font.getbbox(text): (width, height) of the text at the font's size; the
\* empty string has a zero-area box
getbbox(text, f) ==
    IF text = <<>> THEN <<0, 0>>
    ELSE <<Len(text) * GlyphWidth * (f.size \div 10), GlyphHeight * (f.size \div 10)>>

(***************************************************************************)
(* The scroll animation.                                                   *)
(***************************************************************************)
\* the animation state set by __init__ and by "Reset animation state"
InitScroll ==
    [pixels_left |-> 1, pixels_up |-> 0, has_elevated |-> FALSE, pause_count |-> 0]

ScrollOf(self) ==
    [pixels_left |-> self.pixels_left, pixels_up |-> self.pixels_up,
     has_elevated |-> self.has_elevated, pause_count |-> self.pause_count]

\* the object's fields, as a record
Self ==
    [departure_data |-> departure_data, station_name |-> station_name,
     pixels_left |-> pixels_left, pixels_up |-> pixels_up,
     has_elevated |-> has_elevated, pause_count |-> pause_count,
     station_render_count |-> station_render_count]

\* _draw_scrolling_text with the scroll-up increment outside its else branch
draw_scrolling_text_overshoot(self, w, h) ==
    IF self.has_elevated
    THEN IF -self.pixels_left > w /\ self.pause_count < ScrollPause
         THEN [self EXCEPT !.pause_count = @ + 1, !.pixels_left = 0,
                           !.has_elevated = FALSE]
         ELSE [self EXCEPT !.pause_count = 0, !.pixels_left = @ - 1]
    ELSE IF self.pixels_up = h
         THEN IF self.pause_count + 1 > RevealPause
              THEN [self EXCEPT !.pause_count = @ + 1, !.has_elevated = TRUE,
                                !.pixels_up = 0]
              ELSE [self EXCEPT !.pause_count = @ + 1, !.pixels_up = @ + 1]
         ELSE [self EXCEPT !.pixels_up = @ + 1]

\* _draw_scrolling_text: the state after one frame's draw of a text whose
\* bitmap is w wide and h high
draw_scrolling_text(self, w, h) ==
    IF self.has_elevated
    THEN \* Scroll left
         IF -self.pixels_left > w /\ self.pause_count < ScrollPause
         THEN [self EXCEPT !.pause_count = @ + 1, !.pixels_left = 0,
                           !.has_elevated = FALSE]
         ELSE [self EXCEPT !.pause_count = 0, !.pixels_left = @ - 1]
    ELSE \* Scroll up
         IF self.pixels_up = h
         THEN IF self.pause_count + 1 > RevealPause
              THEN [self EXCEPT !.pause_count = @ + 1, !.has_elevated = TRUE,
                                !.pixels_up = 0]
              ELSE [self EXCEPT !.pause_count = @ + 1]
         ELSE [self EXCEPT !.pixels_up = @ + 1]

\* the position _draw_scrolling_text hands to _draw_bitmap_clipped, relative
\* to (x_offset, y_pos)
scroll_draw_pos(sc, h) ==
    IF sc.has_elevated THEN <<sc.pixels_left - 1, 0>> ELSE <<0, h - sc.pixels_up>>

(***************************************************************************)
(* _refresh_data.  What the collaborators do is an input: `outcome` is     *)
(*   "closed"      isRun(...) is false (only with operatingHours set)      *)
(*   "loaded"      loadDeparturesForStation returned (departures, station) *)
(*   "load_error"  an exception before departure_data is assigned          *)
(*   "late_error"  an exception after departure_data and station_name are  *)
(*                 assigned (root.title, the platform filter)              *)
(***************************************************************************)
Truthy(str) == str /= <<>>

\* [dep for dep in deps if dep.get('platform') == platform]
RECURSIVE FilterPlatform(_, _)
FilterPlatform(deps, platform) ==
    IF deps = <<>> THEN <<>>
    ELSE (IF Head(deps).platform = Some(platform) THEN <<Head(deps)>> ELSE <<>>)
         \o FilterPlatform(Tail(deps), platform)

\* _refresh_data without its "Reset animation state" block
refresh_data_no_reset(self, outcome, departures, station, platform) ==
    CASE outcome = "closed" -> [self EXCEPT !.departure_data = Some(<<>>)]
      [] outcome = "load_error" -> [self EXCEPT !.departure_data = Some(<<>>)]
      [] outcome = "late_error" ->
            [self EXCEPT !.departure_data = Some(<<>>), !.station_name = station]
      [] outcome = "loaded" ->
            [self EXCEPT
                !.departure_data =
                    IF Truthy(platform)
                    THEN Some(FilterPlatform(OrEmpty(departures), platform))
                    ELSE departures,
                !.station_name = station]

refresh_data(self, outcome, departures, station, platform) ==
    CASE outcome = "closed" -> [self EXCEPT !.departure_data = Some(<<>>)]
      [] outcome = "load_error" -> [self EXCEPT !.departure_data = Some(<<>>)]
      [] outcome = "late_error" ->
            [self EXCEPT !.departure_data = Some(<<>>), !.station_name = station]
      [] outcome = "loaded" ->
            [self EXCEPT
                !.departure_data =
                    IF Truthy(platform)
                    THEN Some(FilterPlatform(OrEmpty(departures), platform))
                    ELSE departures,
                !.station_name = station,
                \* Reset animation state
                !.pixels_left = 1, !.pixels_up = 0, !.has_elevated = FALSE,
                !.pause_count = 0, !.station_render_count = 0]

\* render_frame's choice between _draw_no_trains and _draw_departures
draws_departures(self) ==
    ~ (~ self.departure_data.some \/ Len(self.departure_data.v) = 0)

\* the text _draw_departure_row scrolls: the first departure's calling_at_list
calling_text(self) == self.departure_data.v[1].calling_at_list

\* the drawing half of render_frame: only _draw_scrolling_text changes state
draw_frame(self) ==
    IF draws_departures(self)
    THEN LET box == getbbox(calling_text(self), font)
         IN draw_scrolling_text(self, box[1], box[2])
    ELSE self

(***************************************************************************)
(* Inputs of the board.                                                    *)
(***************************************************************************)
Dep(calling, platform) ==
    [aimed_departure_time |-> T_1032, expected_departure_time |-> S_OnTime,
     destination_name |-> <<"Y">>, platform |-> platform,
     calling_at_list |-> calling]

D1 == Dep(<<"a">>, Some(<<"1">>))
D2 == Dep(<<>>, Some(<<"2">>))
D3 == Dep(<<"a", "b">>, None)

LoadResults == {None, Some(<<>>), Some(<<D1>>), Some(<<D2, D1>>), Some(<<D3, D1>>)}
Stations == {<<"K", "G", "X">>}
Platforms == {<<>>, <<"1">>}
Outcomes == {"closed", "loaded", "load_error", "late_error"}

(***************************************************************************)
(* The board's actions.                                                    *)
(***************************************************************************)

\* the state after __init__; the other components are not in use
InitBoard ==
    /\ pc = "constructed"
    /\ departure_data = None
    /\ station_name = <<>>
    /\ pixels_left = 1
    /\ pixels_up = 0
    /\ has_elevated = FALSE
    /\ pause_count = 0
    /\ station_render_count = 0
    /\ elapsed = RefreshTime
    /\ screen1Platform \in Platforms
    /\ operatingHours \in BOOLEAN
    /\ refresh_obs = [called |-> FALSE]
    /\ frames_drawn = 0
    /\ used = [drew |-> FALSE]
    /\ entered = FALSE
    /\ cycle_done = FALSE
    /\ flush_frames = 0
    /\ buffer = {}
    /\ blit_call = [op |-> "none"]
    /\ blits = 0
    /\ cache = <<>>
    /\ bitmap_ret = [called |-> FALSE]
    /\ departure = None
    /\ status_text = None

SetSelf(self) ==
    /\ departure_data' = self.departure_data
    /\ station_name' = self.station_name
    /\ pixels_left' = self.pixels_left
    /\ pixels_up' = self.pixels_up
    /\ has_elevated' = self.has_elevated
    /\ pause_count' = self.pause_count
    /\ station_render_count' = self.station_render_count

\* run(): the initial _refresh_data call, then the animation loop starts
Run ==
    /\ pc = "constructed"
    /\ \E outcome \in Outcomes, departures \in LoadResults, station \in Stations :
          /\ outcome = "closed" => operatingHours
          /\ LET self1 == refresh_data(Self, outcome, departures, station,
                                        screen1Platform)
             IN /\ SetSelf(self1)
                /\ refresh_obs' = [called |-> TRUE, outcome |-> outcome,
                                   before |-> ScrollOf(Self),
                                   scroll |-> ScrollOf(self1)]
    /\ pc' = "running"
    /\ frames_drawn' = 0
    /\ entered' = FALSE
    /\ cycle_done' = FALSE
    /\ flush_frames' = 0
    /\ UNCHANGED <<elapsed, screen1Platform, operatingHours, used>>
    /\ UNCHANGED <<blitVars, cacheVars, statusVars>>

\* update() -> render_frame(): dt is the time since the previous frame
RenderFrame ==
    /\ pc = "running"
    /\ \E dt \in {0, 1}, outcome \in Outcomes, departures \in LoadResults,
          station \in Stations :
          LET e == IF elapsed + dt >= RefreshTime THEN RefreshTime ELSE elapsed + dt
              due == e >= RefreshTime
              self1 == IF due
                       THEN refresh_data(Self, outcome, departures, station,
                                         screen1Platform)
                       ELSE Self
              drew == draws_departures(self1)
              self2 == draw_frame(self1)
              box == getbbox(calling_text(self1), font)
              ent == (IF due THEN FALSE ELSE entered) \/ self2.has_elevated
          IN /\ due \/ frames_drawn < MaxFrames
             /\ outcome = "closed" => (due /\ operatingHours)
             /\ ~ due => (outcome = "loaded" /\ departures = None)
             /\ SetSelf(self2)
             /\ elapsed' = IF due THEN 0 ELSE e
             /\ refresh_obs' = IF due
                               THEN [called |-> TRUE, outcome |-> outcome,
                                     before |-> ScrollOf(Self),
                                     scroll |-> ScrollOf(self1)]
                               ELSE [called |-> FALSE]
             /\ frames_drawn' = (IF due THEN 0 ELSE frames_drawn)
                                + (IF drew THEN 1 ELSE 0)
             /\ used' = IF drew
                        THEN [drew |-> TRUE, refreshed |-> due,
                              scroll |-> ScrollOf(self1), w |-> box[1], h |-> box[2],
                              pos |-> scroll_draw_pos(ScrollOf(self1), box[2]),
                              prev_elevated |-> used.drew /\ used.scroll.has_elevated,
                              prev_pos |-> IF used.drew THEN used.pos ELSE <<0, 0>>]
                        ELSE [drew |-> FALSE]
             /\ entered' = ent
             /\ cycle_done' = \/ (IF due THEN FALSE ELSE cycle_done)
                              \/ /\ ent
                                 /\ ~ self2.has_elevated
                                 /\ self2.pause_count = 0
                                 /\ self2.pixels_up = 0
             /\ flush_frames' =
                    IF drew /\ ~ self1.has_elevated /\ self1.pixels_up = box[2]
                    THEN (IF due THEN 0 ELSE flush_frames) + 1
                    ELSE 0
    /\ UNCHANGED <<pc, screen1Platform, operatingHours>>
    /\ UNCHANGED <<blitVars, cacheVars, statusVars>>

NextBoard == Run \/ RenderFrame

SpecBoard == InitBoard /\ [][NextBoard]_vars


(***************************************************************************)
(* Properties of the board.                                                *)
(***************************************************************************)
TextW == getbbox(calling_text(Self), font)[1]
TextH == getbbox(calling_text(Self), font)[2]

\* C1: after any call of _refresh_data, whatever its outcome, the scroll
\* state is the initial tuple (pixels_left 1, pixels_up 0, not elevated,
\* pause_count 0).
C1_RefreshResetsScroll ==
    refresh_obs.called => refresh_obs.scroll = InitScroll

\* n steps of _draw_scrolling_text from sc
RECURSIVE Advance(_, _, _, _)
Advance(sc, w, h, n) ==
    IF n = 0 THEN sc ELSE Advance(draw_scrolling_text(sc, w, h), w, h, n - 1)

\* C2: stale scroll progress is never shown against new text: the scroll
\* state a frame draws a departure list's calling-at line with is the initial
\* tuple advanced by one step per earlier frame that drew that list since it
\* was installed, and so is the state the frame leaves behind.
C2_NoStaleScroll ==
    /\ used.drew =>
          used.scroll = Advance(InitScroll, used.w, used.h, frames_drawn - 1)
    /\ draws_departures(Self) =>
          ScrollOf(Self) = Advance(InitScroll, TextW, TextH, frames_drawn)

\* a refresh that found progress of an earlier list installed a list, and
\* the frame drew it from the initial tuple
C2_Witness ==
    /\ refresh_obs.called
    /\ refresh_obs.outcome = "loaded"
    /\ refresh_obs.before.has_elevated
    /\ refresh_obs.before.pixels_left < 0
    /\ used.drew
    /\ used.scroll = InitScroll
    /\ frames_drawn = 1

\* C3: a scroll cycle started from the initial state (text w wide, h high,
\* no refresh) has entered the horizontal phase and come back to the REVEAL
\* phase with pause_count = 0 and pixels_up = 0 within h + w + 108 frames.
C3_PhaseCycle ==
    (draws_departures(Self) /\ frames_drawn >= TextH + TextW + 108) => cycle_done

\* C4: 0 <= pixels_up <= h and pixels_left <= 1 in every state, h being the
\* height of the installed calling-at text.
C4_ScrollBounds ==
    /\ pixels_left <= 1
    /\ 0 <= pixels_up
    /\ draws_departures(Self) => pixels_up <= TextH

\* the upper bound is met: a frame raised pixels_up to h > 0, in a cycle
\* after a full horizontal pass (pixels_left = 0)
C4_Witness ==
    /\ draws_departures(Self)
    /\ TextH > 0
    /\ pixels_up = TextH
    /\ pixels_left = 0
    /\ used.drew
    /\ used.scroll.pixels_up = TextH - 1

\* C8: in the horizontal phase the animator goes back to REVEAL only when the
\* text has fully left (-pixels_left > w) and pause_count >= 8, pixels_left
\* then being 0; with the text gone and pause_count < 8 it stays in SCROLL,
\* holds pixels_left and counts pause_count up; with the text not yet gone it
\* decrements pixels_left by 1 and keeps pause_count at 0.
C8_ScrollExit ==
    (used.drew /\ used.scroll.has_elevated) =>
        LET gone == -used.scroll.pixels_left > used.w
        IN /\ ~ has_elevated => (gone /\ used.scroll.pause_count >= ScrollPause
                                  /\ pixels_left = 0)
           /\ (gone /\ used.scroll.pause_count < ScrollPause) =>
                 /\ has_elevated
                 /\ pixels_left = used.scroll.pixels_left
                 /\ pause_count = used.scroll.pause_count + 1
           /\ ~ gone =>
                 /\ has_elevated
                 /\ pixels_left = used.scroll.pixels_left - 1
                 /\ pause_count = 0

\* C9: in the REVEAL phase pixels_up rises by 1 per frame until it is h; the
\* animator goes to SCROLL exactly when pixels_up = h and pause_count has
\* exceeded 100, after more than 100 consecutive flush frames, and right
\* after that step pause_count = 0 and pixels_up = 0.
C9_RevealExit ==
    (used.drew /\ ~ used.scroll.has_elevated) =>
        /\ used.scroll.pixels_up < used.h =>
              (pixels_up = used.scroll.pixels_up + 1 /\ ~ has_elevated)
        /\ has_elevated <=>
              (used.scroll.pixels_up = used.h
               /\ used.scroll.pause_count + 1 > RevealPause)
        /\ has_elevated =>
              (flush_frames > RevealPause /\ pause_count = 0 /\ pixels_up = 0)

\* C10: in every scroll cycle the first frame drawn in the horizontal phase
\* draws the text at offset 0 from the viewport's left edge, and every later
\* horizontal frame draws it 1 further left than the frame before.
C10_HorizontalOffsets ==
    (used.drew /\ used.scroll.has_elevated) =>
        IF used.prev_elevated
        THEN used.pos[1] = used.prev_pos[1] - 1
        ELSE used.pos[1] = 0


(***************************************************************************)
(* The blit primitives.  A bitmap is its size and the set of its pixels    *)
(* with alpha > 0; the frame image is the set of its yellow pixels.  Each  *)
(* operator is the set of points the primitive hands to draw.point.        *)
(***************************************************************************)
\* _draw_bitmap_clipped without the vertical clip to the line
draw_bitmap_clipped_no_band(x, y, bitmap, clip_x_start, clip_width) ==
    LET clip_x_end == clip_x_start + clip_width
    IN {<<x + p[1], y + p[2]>> : p \in
          {q \in bitmap.lit :
              /\ clip_x_start <= x + q[1] /\ x + q[1] < clip_x_end
              /\ 0 <= x + q[1] /\ x + q[1] < CanvasWidth
              /\ 0 <= y + q[2] /\ y + q[2] < ScrollAreaHeight}}

draw_bitmap_clipped(x, y, bitmap, clip_x_start, clip_width) ==
    LET clip_x_end == clip_x_start + clip_width
        clip_y_start == y
        clip_y_end == y + LineHeight
    IN {<<x + p[1], y + p[2]>> : p \in
          {q \in bitmap.lit :
              /\ clip_x_start <= x + q[1] /\ x + q[1] < clip_x_end
              /\ clip_y_start <= y + q[2] /\ y + q[2] < clip_y_end
              /\ 0 <= x + q[1] /\ x + q[1] < CanvasWidth
              /\ 0 <= y + q[2] /\ y + q[2] < ScrollAreaHeight}}

draw_bitmap(x, y, bitmap) ==
    {<<x + p[1], y + p[2]>> : p \in
        {q \in bitmap.lit :
            /\ 0 <= x + q[1] /\ x + q[1] < CanvasWidth
            /\ 0 <= y + q[2] /\ y + q[2] < CanvasHeight}}

\* Image.new('L', (w, h)) with every pixel drawn, with a checker of pixels
\* drawn, and the zero-area bitmap of the empty string
Solid(w, h) == [width |-> w, height |-> h, lit |-> (0 .. w - 1) \X (0 .. h - 1)]
Bitmaps ==
    {Solid(3, LineHeight + 2),
     [width |-> 2, height |-> 2, lit |-> {<<0, 0>>, <<1, 1>>}],
     Solid(0, 0)}
BlitX == {-1, CanvasWidth - 2}
BlitY == {-1, CanvasHeight - 1}
ClipY == {-1, ScrollAreaHeight - 7}
Clips == {<<0, 1>>, <<CanvasWidth - 1, 2>>}

\* a fresh frame image, on a board as constructed
InitBlit ==
    /\ pc = "constructed"
    /\ departure_data = None
    /\ station_name = <<>>
    /\ pixels_left = 1
    /\ pixels_up = 0
    /\ has_elevated = FALSE
    /\ pause_count = 0
    /\ station_render_count = 0
    /\ elapsed = RefreshTime
    /\ screen1Platform = <<>>
    /\ operatingHours = FALSE
    /\ refresh_obs = [called |-> FALSE]
    /\ frames_drawn = 0
    /\ used = [drew |-> FALSE]
    /\ entered = FALSE
    /\ cycle_done = FALSE
    /\ flush_frames = 0
    /\ buffer = {}
    /\ blit_call = [op |-> "none"]
    /\ blits = 0
    /\ cache = <<>>
    /\ bitmap_ret = [called |-> FALSE]
    /\ departure = None
    /\ status_text = None

\* render_frame: img = Image.new('RGB', (256, 64), color='black')
NewFrame ==
    /\ blits > 0
    /\ buffer' = {}
    /\ blits' = 0
    /\ blit_call' = [op |-> "none"]
    /\ UNCHANGED <<boardVars, cacheVars, statusVars>>

DrawBitmap ==
    /\ blits < MaxBlits
    /\ \E x \in BlitX, y \in BlitY, bitmap \in Bitmaps :
          LET points == draw_bitmap(x, y, bitmap)
          IN /\ buffer' = buffer \cup points
             /\ blit_call' = [op |-> "blit", x |-> x, y |-> y, bitmap |-> bitmap,
                              before |-> buffer]
    /\ blits' = blits + 1
    /\ UNCHANGED <<boardVars, cacheVars, statusVars>>

DrawBitmapClipped ==
    /\ blits < MaxBlits
    /\ \E x \in BlitX, y \in ClipY, bitmap \in Bitmaps, clip \in Clips :
          LET points == draw_bitmap_clipped(x, y, bitmap, clip[1], clip[2])
          IN /\ buffer' = buffer \cup points
             /\ blit_call' = [op |-> "clipped", x |-> x, y |-> y,
                              bitmap |-> bitmap, clip_x_start |-> clip[1],
                              clip_width |-> clip[2], before |-> buffer]
    /\ blits' = blits + 1
    /\ UNCHANGED <<boardVars, cacheVars, statusVars>>

NextBlit == NewFrame \/ DrawBitmap \/ DrawBitmapClipped

SpecBlit == InitBlit /\ [][NextBlit]_vars

InCanvas(p) ==
    0 <= p[1] /\ p[1] < CanvasWidth /\ 0 <= p[2] /\ p[2] < CanvasHeight

\* the pixels of the frame image the last blit changed
Changed == (buffer \ blit_call.before) \cup (blit_call.before \ buffer)

\* C5: the unclipped blit sets only pixels inside the 256x64 canvas; the
\* clipped blit sets only pixels with clip_x_start <= X < clip_x_start +
\* clip_width and y <= Y < y + 10 that are inside the canvas; no other pixel
\* of the image changes.
C5_BlitBounds ==
    /\ \A p \in buffer : InCanvas(p)
    /\ blit_call.op = "blit" => \A p \in Changed : InCanvas(p)
    /\ blit_call.op = "clipped" =>
          \A p \in Changed :
              /\ InCanvas(p)
              /\ blit_call.clip_x_start <= p[1]
              /\ p[1] < blit_call.clip_x_start + blit_call.clip_width
              /\ blit_call.y <= p[2]
              /\ p[2] < blit_call.y + LineHeight

\* a clipped blit onto an image an unclipped blit had drawn on: it set some
\* pixels, and dropped pixels left of the clip, right of it and below the band
C5_Witness ==
    /\ blit_call.op = "clipped"
    /\ blit_call.before /= {}
    /\ Changed /= {}
    /\ blit_call.x < blit_call.clip_x_start
    /\ blit_call.x + blit_call.bitmap.width
          > blit_call.clip_x_start + blit_call.clip_width
    /\ blit_call.bitmap.height > LineHeight

(***************************************************************************)
(* BitmapTextCache.  A bitmap object is named by the text and font it was  *)
(* rasterized from: get_bitmap makes one only on a miss and the cache      *)
(* never evicts.                                                           *)
(***************************************************************************)
\* the cache key of a text and a font
cache_key(text, f) ==
    LET name_tuple == getname(f)
        font_key == name_tuple[1] \o name_tuple[2]
    IN text \o font_key

\* get_bitmap: <<the cache after the call, what the call returns>>
get_bitmap(c, text, f) ==
    LET key == cache_key(text, f)
    IN IF key \in DOMAIN c
       THEN <<c, c[key]>>
       ELSE LET box == getbbox(text, f)
                entry == [bitmap |-> [text |-> text, font |-> f],
                          txt_width |-> box[1], txt_height |-> box[2]]
            IN <<[k \in DOMAIN c \cup {key} |-> IF k = key THEN entry ELSE c[k]],
                 entry>>

CacheTexts == {<<>>, <<"a">>, T_1032}

\* the empty cache of BitmapTextCache.__init__, on a board as constructed
InitCache ==
    /\ pc = "constructed"
    /\ departure_data = None
    /\ station_name = <<>>
    /\ pixels_left = 1
    /\ pixels_up = 0
    /\ has_elevated = FALSE
    /\ pause_count = 0
    /\ station_render_count = 0
    /\ elapsed = RefreshTime
    /\ screen1Platform = <<>>
    /\ operatingHours = FALSE
    /\ refresh_obs = [called |-> FALSE]
    /\ frames_drawn = 0
    /\ used = [drew |-> FALSE]
    /\ entered = FALSE
    /\ cycle_done = FALSE
    /\ flush_frames = 0
    /\ buffer = {}
    /\ blit_call = [op |-> "none"]
    /\ blits = 0
    /\ cache = <<>>
    /\ bitmap_ret = [called |-> FALSE]
    /\ departure = None
    /\ status_text = None

GetBitmap ==
    /\ bitmap_ret.called => bitmap_ret.n < MaxCalls
    /\ \E text \in CacheTexts, f \in Fonts :
          LET r == get_bitmap(cache, text, f)
          IN /\ cache' = r[1]
             /\ bitmap_ret' =
                   [called |-> TRUE,
                    n |-> IF bitmap_ret.called THEN bitmap_ret.n + 1 ELSE 1,
                    text |-> text, font |-> f, ret |-> r[2],
                    prev |-> IF bitmap_ret.called
                             THEN Some([text |-> bitmap_ret.text,
                                        font |-> bitmap_ret.font,
                                        ret |-> bitmap_ret.ret])
                             ELSE None]
    /\ UNCHANGED <<boardVars, blitVars, statusVars>>

NextCache == GetBitmap

SpecCache == InitCache /\ [][NextCache]_vars

\* C6: two get_bitmap calls share a cache entry (get the same bitmap object)
\* if and only if they have the same text and the same font family, style
\* and size.
C6_CacheKeyedByTextAndFont ==
    (bitmap_ret.called /\ bitmap_ret.prev.some) =>
        ((bitmap_ret.ret.bitmap = bitmap_ret.prev.v.ret.bitmap)
            <=> (bitmap_ret.text = bitmap_ret.prev.v.text
                 /\ bitmap_ret.font = bitmap_ret.prev.v.font))

(***************************************************************************)
(* _get_status_text.  A Python value is its type and, for a str, its       *)
(* characters.                                                             *)
(***************************************************************************)
PyStr(chars) == [type |-> "str", val |-> chars]
PyNone == [type |-> "NoneType", val |-> <<>>]
isinstance_str(x) == x.type = "str"

\* _get_status_text without the three sentinel branches
get_status_text_differs_first(dep) ==
    LET expected == dep.expected_departure_time
        aimed == dep.aimed_departure_time
    IN IF isinstance_str(expected) /\ expected /= aimed
       THEN S_Exp \o expected.val
       ELSE S_OnTime

get_status_text(dep) ==
    LET expected == dep.expected_departure_time
        aimed == dep.aimed_departure_time
    IN IF expected = PyStr(S_OnTime) THEN S_OnTime
       ELSE IF expected = PyStr(S_Cancelled) THEN S_Cancelled
       ELSE IF expected = PyStr(S_Delayed) THEN S_Delayed
       ELSE IF isinstance_str(expected) /\ expected /= aimed
            THEN S_Exp \o expected.val
       ELSE S_OnTime

TimeValues ==
    {PyStr(S_OnTime), PyStr(S_Cancelled), PyStr(S_Delayed), PyStr(T_1032),
     PyStr(T_1045), PyStr(<<>>), PyStr(<<"E", "x", "p", " ">>), PyNone}

\* a departure whose status has not been computed, on a board as constructed
InitStatus ==
    /\ pc = "constructed"
    /\ departure_data = None
    /\ station_name = <<>>
    /\ pixels_left = 1
    /\ pixels_up = 0
    /\ has_elevated = FALSE
    /\ pause_count = 0
    /\ station_render_count = 0
    /\ elapsed = RefreshTime
    /\ screen1Platform = <<>>
    /\ operatingHours = FALSE
    /\ refresh_obs = [called |-> FALSE]
    /\ frames_drawn = 0
    /\ used = [drew |-> FALSE]
    /\ entered = FALSE
    /\ cycle_done = FALSE
    /\ flush_frames = 0
    /\ buffer = {}
    /\ blit_call = [op |-> "none"]
    /\ blits = 0
    /\ cache = <<>>
    /\ bitmap_ret = [called |-> FALSE]
    /\ departure \in
          {Some([expected_departure_time |-> e, aimed_departure_time |-> a]) :
              e \in TimeValues, a \in TimeValues}
    /\ status_text = None

GetStatusText ==
    /\ status_text = None
    /\ status_text' = Some(get_status_text(departure.v))
    /\ UNCHANGED departure
    /\ UNCHANGED <<boardVars, blitVars, cacheVars>>

NextStatus == GetStatusText

SpecStatus == InitStatus /\ [][NextStatus]_vars

Sentinels == {PyStr(S_OnTime), PyStr(S_Cancelled), PyStr(S_Delayed)}

\* C7: the status is the sentinel when the expected time is "On time",
\* "Cancelled" or "Delayed"; otherwise "Exp " and the expected time when that
\* is a string different from the aimed time; otherwise "On time".  It always
\* has one of these four shapes.
C7_StatusMapping ==
    status_text.some =>
        LET expected == departure.v.expected_departure_time
            aimed == departure.v.aimed_departure_time
            r == status_text.v
        IN /\ expected \in Sentinels => r = expected.val
           /\ (expected \notin Sentinels /\ expected.type = "str"
               /\ expected /= aimed) => r = S_Exp \o expected.val
           /\ (expected \notin Sentinels
               /\ (expected.type /= "str" \/ expected = aimed)) => r = S_OnTime
           /\ \/ r \in {S_OnTime, S_Cancelled, S_Delayed}
              \/ (Len(r) >= Len(S_Exp) /\ SubSeq(r, 1, Len(S_Exp)) = S_Exp)

\* the spec's scenario: expected 10:45 against aimed 10:32 gives "Exp 10:45"
C7_Witness ==
    /\ departure.some
    /\ departure.v.expected_departure_time = PyStr(T_1045)
    /\ departure.v.aimed_departure_time = PyStr(T_1032)
    /\ status_text = Some(S_Exp \o T_1045)


====
